---------------------------- MODULE Spec2Model ----------------------------
(***************************************************************************)
(* A model of the example code of the "Python Profiling" notebook:         *)
(*   - fib, the recursive Fibonacci function (cells 1 and 2);              *)
(*   - Timer, the class-level stopwatch (cell 2);                          *)
(*   - f, compute, fun1, fun2, fun3, sleep_, main (cell 3);                *)
(*   - profile, the profiler decorator, and main_with_prof (cells 5, 6).   *)
(* Each part has its own specification over the shared variables; the      *)
(* variables a specification does not use keep their initial values.       *)
(***************************************************************************)
EXTENDS Integers, Sequences, FiniteSets, TLC

VARIABLES
    \* ---- fib ----
    fibPc,          \* "ready" | "call" | "run" | "done": position of the top-level call
    fibArg,         \* the argument n of the top-level call fib(n)
    fibValue,       \* <<v>> once fib(fibArg) has been evaluated as a function, else <<>>
    fibStack,       \* the Python call stack of fib frames, innermost last
    fibInvocations, \* number of invocations of fib made so far by the traced call
    fibRet,         \* <<v>> once the traced top-level call has returned v, else <<>>
    fibEvaluated,   \* history: argument -> value of every invocation that has returned
    fibReinvoked    \* history: arguments invoked again after an invocation on them returned

fibVars == <<fibPc, fibArg, fibValue, fibStack, fibInvocations, fibRet, fibEvaluated,
            fibReinvoked>>

VARIABLES
    \* ---- Timer ----
    clock,          \* the reading time.perf_counter() would return now, in clock ticks
    _start_time,    \* Timer._start_time, the class attribute: None or a clock reading
    ownStart,       \* history: caller -> the reading its latest start_measure took
    lastStart,      \* history: the most recent start_measure: its reading, its caller
    earlierStart,   \* history: the start_measure before that one
    sinceStart,     \* history: the latest print_time since the latest start_measure
    lastPrint,      \* history: what the most recent print_time call did
    tpc,            \* thread -> its position when Timer is called from threads
    reading         \* thread -> the value of time.perf_counter() it last evaluated

timerVars == <<clock, _start_time, ownStart, lastStart, earlierStart, sinceStart, lastPrint,
              tpc, reading>>

VARIABLES
    \* ---- the interpreter running cells 3, 5 and 6 ----
    script,         \* position of the calling cell: which call it makes next
    stack,          \* the Python call stack, innermost frame last: [fn, pc]
    retv,           \* the value the latest `return` handed to its caller
    result,         \* how the cell's call ended: returned a value, or raised
    \* ---- locals of compute ----
    n, i, x,        \* the argument, the position in range(n), the local x
    stride,         \* the number of loop iterations the model runs in one step
    \* ---- locals of main / main_with_prof ----
    acc,            \* the partial value of `fun1() + fun2() + fun3()`
    sum,            \* the local `sum`
    \* ---- profile(func) and the locals of inner ----
    func,           \* the wrapped function
    args, kwargs,   \* the arguments the wrapper is called with
    pr,             \* the cProfile.Profile of the call: "none", or its state
    ret_val,        \* the local ret_val: None or the value func returned
    \* ---- what the run does, as seen from outside ----
    stdout,         \* the lines printed, in order
    calls,          \* function name -> number of calls made to it
    trace,          \* the calls, returns and profiler steps, in order
    lastF,          \* history: the latest call of f in the running compute
    funcCalls,      \* history: the calls inner made to func, with their arguments
    mainRun         \* history: trace, calls and stdout of the finished main()

runVars == <<script, stack, retv, result, n, i, x, stride, acc, sum, func, args, kwargs, pr,
            ret_val, stdout, calls, trace, lastF, funcCalls, mainRun>>

vars == <<fibVars, timerVars, runVars>>

\* Python's None, and a present value, for the optional fields of the model.
None == <<>>
Some(v) == <<v>>

-----------------------------------------------------------------------------
(***************************************************************************)
(* fib                                                                     *)
(***************************************************************************)

\* Largest argument whose invocations are traced step by step.
MaxFibN == 8

\* The arguments of the notebook's own calls: fib(30), fib(32), fib(31), fib(35).
NotebookFibArgs == {30, 31, 32, 35}

\* `if n == 0 or n == 1:`
FibIsBase(k) == k = 0 \/ k = 1

\* `return 1` of the base case, with the variant that returns n instead.
FibBaseValue_returns_n(k) == k
FibBaseValue(k) == 1

\* fib as a function of its argument.
RECURSIVE fib(_)
fib(k) == IF FibIsBase(k) THEN FibBaseValue(k) ELSE fib(k - 1) + fib(k - 2)

FibFrame(k) == [n |-> k, pc |-> "test", a |-> 0, b |-> 0, kids |-> <<>>]

FibTop == fibStack[Len(fibStack)]
FibSetTop(fr) == [fibStack EXCEPT ![Len(fibStack)] = fr]

\* The stack after the innermost frame returns v to its caller: the caller
\* resumes in `fib(n-1) + fib(n-2)` with the operand it was waiting for.
FibPopWith(v) ==
    LET rest == SubSeq(fibStack, 1, Len(fibStack) - 1)
        c == rest[Len(rest)]
    IN  IF rest = <<>> THEN rest
        ELSE [rest EXCEPT ![Len(rest)] =
                 IF c.pc = "left" THEN [c EXCEPT !.a = v, !.pc = "right"]
                                  ELSE [c EXCEPT !.b = v, !.pc = "add"]]

FibRecord(k, v) ==
    [j \in DOMAIN fibEvaluated \cup {k} |-> IF j = k THEN v ELSE fibEvaluated[j]]

\* The re-invoked arguments after an invocation on k starts.
FibNoteInvoked(k) ==
    IF k \in DOMAIN fibEvaluated THEN fibReinvoked \cup {k} ELSE fibReinvoked

\* A `return v` of the innermost frame.
FibReturn(v) ==
    /\ fibStack' = FibPopWith(v)
    /\ fibEvaluated' = FibRecord(FibTop.n, v)
    /\ IF Len(fibStack) = 1
       THEN fibRet' = Some(v) /\ fibPc' = "done"
       ELSE UNCHANGED <<fibRet, fibPc>>

\* The value of fib(fibArg), the function applied to its argument.
FibEval ==
    /\ fibPc = "ready"
    /\ fibValue' = Some(fib(fibArg))
    /\ fibPc' = IF fibArg <= MaxFibN THEN "call" ELSE "done"
    /\ UNCHANGED <<fibArg, fibStack, fibInvocations, fibRet, fibEvaluated, fibReinvoked>>
    /\ UNCHANGED <<timerVars, runVars>>

\* The top-level call fib(fibArg), traced invocation by invocation.
FibCall ==
    /\ fibPc = "call"
    /\ fibStack' = <<FibFrame(fibArg)>>
    /\ fibInvocations' = 1
    /\ fibPc' = "run"
    /\ UNCHANGED <<fibArg, fibValue, fibRet, fibEvaluated, fibReinvoked>>
    /\ UNCHANGED <<timerVars, runVars>>

\* `if n == 0 or n == 1: return 1`
FibBase ==
    /\ fibPc = "run"
    /\ FibTop.pc = "test"
    /\ FibIsBase(FibTop.n)
    /\ FibReturn(FibBaseValue(FibTop.n))
    /\ UNCHANGED <<fibArg, fibValue, fibInvocations, fibReinvoked>>
    /\ UNCHANGED <<timerVars, runVars>>

\* `else:` the left operand, the call fib(n-1).
FibRecurseLeft ==
    /\ fibPc = "run"
    /\ FibTop.pc = "test"
    /\ ~FibIsBase(FibTop.n)
    /\ fibStack' = Append(FibSetTop([FibTop EXCEPT !.pc = "left",
                                                    !.kids = Append(@, FibTop.n - 1)]),
                          FibFrame(FibTop.n - 1))
    /\ fibInvocations' = fibInvocations + 1
    /\ fibReinvoked' = FibNoteInvoked(FibTop.n - 1)
    /\ UNCHANGED <<fibPc, fibArg, fibValue, fibRet, fibEvaluated>>
    /\ UNCHANGED <<timerVars, runVars>>

\* A memoizing variant of the right operand: a value computed before is reused.
FibRecurseRight_memoized ==
    /\ fibPc = "run"
    /\ FibTop.pc = "right"
    /\ IF FibTop.n - 2 \in DOMAIN fibEvaluated
       THEN /\ fibStack' = FibSetTop([FibTop EXCEPT !.pc = "add",
                                                    !.b = fibEvaluated[FibTop.n - 2]])
            /\ UNCHANGED <<fibInvocations, fibReinvoked>>
       ELSE /\ fibStack' = Append(FibSetTop([FibTop EXCEPT !.pc = "wait_right",
                                                !.kids = Append(@, FibTop.n - 2)]),
                                  FibFrame(FibTop.n - 2))
            /\ fibInvocations' = fibInvocations + 1
            /\ fibReinvoked' = FibNoteInvoked(FibTop.n - 2)
    /\ UNCHANGED <<fibPc, fibArg, fibValue, fibRet, fibEvaluated>>
    /\ UNCHANGED <<timerVars, runVars>>

\* The right operand, the call fib(n-2), made after fib(n-1) has returned.
FibRecurseRight ==
    /\ fibPc = "run"
    /\ FibTop.pc = "right"
    /\ fibStack' = Append(FibSetTop([FibTop EXCEPT !.pc = "wait_right",
                                                    !.kids = Append(@, FibTop.n - 2)]),
                          FibFrame(FibTop.n - 2))
    /\ fibInvocations' = fibInvocations + 1
    /\ fibReinvoked' = FibNoteInvoked(FibTop.n - 2)
    /\ UNCHANGED <<fibPc, fibArg, fibValue, fibRet, fibEvaluated>>
    /\ UNCHANGED <<timerVars, runVars>>

\* `return fib(n-1) + fib(n-2)`: the sum of the two operands is returned.
FibAdd ==
    /\ fibPc = "run"
    /\ FibTop.pc = "add"
    /\ FibReturn(FibTop.a + FibTop.b)
    /\ UNCHANGED <<fibArg, fibValue, fibInvocations, fibReinvoked>>
    /\ UNCHANGED <<timerVars, runVars>>

InitFibVars ==
    /\ fibPc = "ready"
    /\ fibValue = None
    /\ fibStack = <<>>
    /\ fibInvocations = 0
    /\ fibRet = None
    /\ fibEvaluated = <<>>
    /\ fibReinvoked = {}

InitFibIdle == InitFibVars /\ fibArg = 0

NextFib == FibEval \/ FibCall \/ FibBase \/ FibRecurseLeft \/ FibRecurseRight \/ FibAdd

-----------------------------------------------------------------------------
(***************************************************************************)
(* Timer                                                                   *)
(***************************************************************************)

\* The callers of the Timer's class methods: call sites of one thread, or threads.
Callers == {"A", "B"}

\* Last reading of the clock the model lets time.perf_counter() reach.
MaxClock == 4

\* Clock ticks per 0.00001 s, the last digit '{:.5f}' prints.
TicksPerDigit == 2

\* '{:.5f}'.format(e): e, a number of ticks, rounded to the nearest 0.00001 s
\* (a tie to the even digit), as a number of units of 0.00001 s.
Format5f(e) ==
    LET q == e \div TicksPerDigit
        r == e % TicksPerDigit
    IN  IF 2 * r < TicksPerDigit THEN q
        ELSE IF 2 * r > TicksPerDigit THEN q + 1
        ELSE IF q % 2 = 0 THEN q ELSE q + 1

\* The line print_time prints.
TimeElapsedLine(e) == [text |-> "Time elapsed: {:.5f} s", digits |-> Format5f(e)]

NoPrint ==
    [kind |-> "none", caller |-> "", at |-> 0, elapsed |-> 0, lines |-> <<>>,
     since |-> None, starts |-> [c \in Callers |-> None], prev |-> None]

\* Time passes: the caller's work between two calls, or anything else.
Tick ==
    /\ clock < MaxClock
    /\ clock' = clock + 1
    /\ UNCHANGED <<_start_time, ownStart, lastStart, earlierStart, sinceStart, lastPrint,
                   tpc, reading>>
    /\ UNCHANGED <<fibVars, runVars>>

\* The history kept of a start_measure by caller c that took the reading t.
NoteStart(c, t) ==
    /\ ownStart' = [ownStart EXCEPT ![c] = Some(t)]
    /\ earlierStart' = lastStart
    /\ lastStart' = Some([at |-> t, by |-> c])
    /\ sinceStart' = None
    /\ UNCHANGED <<clock, lastPrint>>
    /\ UNCHANGED <<fibVars, runVars>>

\* The history kept of a print_time by caller c that took the reading t and
\* read the start time st: it raised TypeError when st is None, else printed
\* the duration t - st.
NotePrint(c, t, st) ==
    /\ lastPrint' =
         IF st = None
         THEN [kind |-> "TypeError", caller |-> c, at |-> t, elapsed |-> 0,
               lines |-> <<>>, since |-> lastStart, starts |-> ownStart,
               prev |-> sinceStart]
         ELSE [kind |-> "printed", caller |-> c, at |-> t, elapsed |-> t - st[1],
               lines |-> <<TimeElapsedLine(t - st[1])>>, since |-> lastStart,
               starts |-> ownStart, prev |-> sinceStart]
    /\ sinceStart' = IF st = None THEN sinceStart
                     ELSE Some([elapsed |-> t - st[1], at |-> t])
    /\ UNCHANGED <<clock, ownStart, lastStart, earlierStart>>
    /\ UNCHANGED <<fibVars, runVars>>

\* A start_measure that keeps a start time already set.
StartMeasure_keeps_first(c) ==
    /\ _start_time' = IF _start_time = None THEN Some(clock) ELSE _start_time
    /\ NoteStart(c, clock)
    /\ UNCHANGED <<tpc, reading>>

\* Timer.start_measure(), called from one thread:
\*   `cls._start_time = time.perf_counter()`
StartMeasure(c) ==
    /\ _start_time' = Some(clock)
    /\ NoteStart(c, clock)
    /\ UNCHANGED <<tpc, reading>>

\* A print_time that restarts the measurement after reporting.
PrintTime_restarts(c) ==
    /\ NotePrint(c, clock, _start_time)
    /\ _start_time' = Some(clock)
    /\ UNCHANGED <<tpc, reading>>

\* A print_time that starts the measurement itself when none was started, and
\* reports no time elapsed.
PrintTime_starts_when_unset(c) ==
    /\ NotePrint(c, clock, IF _start_time = None THEN Some(clock) ELSE _start_time)
    /\ _start_time' = IF _start_time = None THEN Some(clock) ELSE _start_time
    /\ UNCHANGED <<tpc, reading>>

\* Timer.print_time(), called from one thread:
\*   `time_elapsed = time.perf_counter() - cls._start_time`  (None: TypeError)
\*   `print('Time elapsed: {:.5f} s'.format(time_elapsed))`
PrintTime(c) ==
    /\ NotePrint(c, clock, _start_time)
    /\ UNCHANGED _start_time
    /\ UNCHANGED <<tpc, reading>>

InitTimerVars ==
    /\ clock = 0
    /\ _start_time = None
    /\ ownStart = [c \in Callers |-> None]
    /\ lastStart = None
    /\ earlierStart = None
    /\ sinceStart = None
    /\ lastPrint = NoPrint
    /\ reading = [c \in Callers |-> 0]

InitTimerIdle == InitTimerVars /\ tpc = [c \in Callers |-> "idle"]

NextTimer ==
    \/ Tick
    \/ \E c \in Callers : StartMeasure(c)
    \/ \E c \in Callers : PrintTime(c)

(***************************************************************************)
(* Timer called from two threads. Each thread runs                         *)
(*     Timer.start_measure(); <its work>; Timer.print_time()               *)
(* and the interpreter may switch threads between any two steps: nothing   *)
(* in Timer holds a lock. A step is a read of the clock, or the store or   *)
(* load of Timer._start_time with what follows it in the statement.        *)
(***************************************************************************)

ThreadGoto(c, pc) == tpc' = [tpc EXCEPT ![c] = pc]

\* start_measure: `time.perf_counter()` is evaluated.
ThreadStartRead(c) ==
    /\ tpc[c] = "start"
    /\ reading' = [reading EXCEPT ![c] = clock]
    /\ ThreadGoto(c, "store")
    /\ UNCHANGED <<clock, _start_time, ownStart, lastStart, earlierStart, sinceStart,
                   lastPrint>>
    /\ UNCHANGED <<fibVars, runVars>>

\* start_measure: `cls._start_time = ...` stores the reading.
ThreadStartStore(c) ==
    /\ tpc[c] = "store"
    /\ _start_time' = Some(reading[c])
    /\ NoteStart(c, reading[c])
    /\ ThreadGoto(c, "work")
    /\ UNCHANGED reading

\* The thread's work between its two calls is done.
ThreadWork(c) ==
    /\ tpc[c] = "work"
    /\ ThreadGoto(c, "print")
    /\ UNCHANGED <<clock, _start_time, ownStart, lastStart, earlierStart, sinceStart,
                   lastPrint, reading>>
    /\ UNCHANGED <<fibVars, runVars>>

\* print_time: `time.perf_counter()` is evaluated.
ThreadPrintRead(c) ==
    /\ tpc[c] = "print"
    /\ reading' = [reading EXCEPT ![c] = clock]
    /\ ThreadGoto(c, "subtract")
    /\ UNCHANGED <<clock, _start_time, ownStart, lastStart, earlierStart, sinceStart,
                   lastPrint>>
    /\ UNCHANGED <<fibVars, runVars>>

\* The start time a thread's print_time subtracts, with the variant in which
\* each thread has a start time of its own.
StartTimeOf_own(c) == ownStart[c]
StartTimeOf(c) == _start_time

\* print_time: `... - cls._start_time` loads the start time and subtracts it;
\* the duration is printed.
ThreadPrintReport(c) ==
    /\ tpc[c] = "subtract"
    /\ NotePrint(c, reading[c], StartTimeOf(c))
    /\ ThreadGoto(c, "done")
    /\ UNCHANGED <<_start_time, reading>>

InitTimerThreads == InitTimerVars /\ tpc = [c \in Callers |-> "start"]

NextTimerThreads ==
    \/ Tick
    \/ \E c \in Callers : ThreadStartRead(c)
    \/ \E c \in Callers : ThreadStartStore(c)
    \/ \E c \in Callers : ThreadWork(c)
    \/ \E c \in Callers : ThreadPrintRead(c)
    \/ \E c \in Callers : ThreadPrintReport(c)

-----------------------------------------------------------------------------
(***************************************************************************)
(* The interpreter: values, frames, calls and returns                      *)
(***************************************************************************)

\* Python values. A float is kept as the expression that computes it: f
\* applied `apps` times to `base`, or the sum of two values.
PyNone == [type |-> "NoneType", kind |-> "None"]
PyInt(k) == [type |-> "int", kind |-> "lit", val |-> k]
PyArgs(a, k) == [type |-> "tuple", kind |-> "args", args |-> a, kwargs |-> k]
PyAdd(a, b) == [type |-> "float", kind |-> "+", left |-> a, right |-> b]

\* The functions of cells 3 and 6, the wrapper, and the functions wrapped.
Bodies == {"main", "main_with_prof"}
Funcs == {"echo", "quiet", "fail"}
Functions ==
    {"main", "main_with_prof", "inner", "fun1", "fun2", "fun3", "sleep_", "compute",
     "f", "time.sleep"} \cup Funcs

\* The first statement of each function.
Entry(fn) ==
    CASE fn \in Bodies -> "fun1"
      [] fn \in {"fun1", "fun2"} -> "compute"
      [] fn \in {"fun3", "sleep_"} -> "sleep"
      [] fn = "compute" -> "init"
      [] fn = "inner" -> "create"
      [] OTHER -> "body"

NoResult == [kind |-> "running"]
Returned(v) == [kind |-> "returned", value |-> v]
Raised(e) == [kind |-> "raised", exc |-> e]

NoCalls == [fn \in Functions |-> 0]
CallEvent(fn, a) == [ev |-> "call", fn |-> fn, arg |-> a]
ReturnEvent(fn, v) == [ev |-> "return", fn |-> fn, value |-> v]
ProfilerEvent(step) == [ev |-> "profiler", step |-> step]

Top == stack[Len(stack)]
Running(fn, pc) == stack # <<>> /\ Top.fn = fn /\ Top.pc = pc
Goto(pc) == [stack EXCEPT ![Len(stack)].pc = pc]

\* The running function calls fn with argument a and continues at `next`
\* when the call returns.
Call(next, fn, a) ==
    /\ stack' = Append(Goto(next), [fn |-> fn, pc |-> Entry(fn)])
    /\ calls' = [calls EXCEPT ![fn] = @ + 1]
    /\ trace' = Append(trace, CallEvent(fn, a))

\* The running function returns v: to its caller, or to the calling cell.
Return(v) ==
    /\ stack' = SubSeq(stack, 1, Len(stack) - 1)
    /\ retv' = v
    /\ trace' = Append(trace, ReturnEvent(Top.fn, v))
    /\ result' = IF Len(stack) = 1 THEN Returned(v) ELSE result

computeLocals == <<n, i, x, lastF, stride>>
mainLocals == <<acc, sum>>
innerLocals == <<func, args, kwargs, pr, ret_val, funcCalls>>
cellVars == <<script, mainRun>>

-----------------------------------------------------------------------------
(***************************************************************************)
(* f, compute, fun1, fun2, fun3, sleep_, main (cell 3)                     *)
(***************************************************************************)

\* `def f(x): return 10.0 * sin(x)`: one more application of f.
f(v) ==
    IF v.kind = "f" THEN [v EXCEPT !.apps = @ + 1]
    ELSE [type |-> "float", kind |-> "f", base |-> v, apps |-> 1]

\* `x = 1`
ComputeInit ==
    /\ Running("compute", "init")
    /\ x' = PyInt(1)
    /\ i' = 0
    /\ lastF' = None
    /\ stack' = Goto("loop")
    /\ UNCHANGED <<n, stride, retv, result, stdout, calls, trace>>
    /\ UNCHANGED <<mainLocals, innerLocals, cellVars, fibVars, timerVars>>

\* `for i in range(n):` has a next item.
RangeHasNext(k, m) == k < m

\* The argument of the call of f in the loop body, `f(x)`, with the variant f(i).
LoopArg_index(k, v) == PyInt(k)
LoopArg(k, v) == v

\* One iteration of `for i in range(n): x = f(x)` on the locals st: f is
\* called on x and its result assigned to x.
LoopBody(st) ==
    [i |-> st.i + 1,
     x |-> f(LoopArg(st.i, st.x)),
     lastF |-> Some([arg |-> LoopArg(st.i, st.x),
                     ret |-> f(LoopArg(st.i, st.x)),
                     prev |-> IF st.lastF = None THEN None ELSE Some(st.lastF[1].ret)])]

\* The locals after the next k iterations of the loop over range(m), or after
\* those that are left: the iterations run one after the other, each on the
\* locals the one before left (the first half of them, then the rest).
RECURSIVE LoopRun(_, _, _)
LoopRun(st, m, k) ==
    IF k = 0 \/ ~RangeHasNext(st.i, m) THEN st
    ELSE IF k = 1 THEN LoopBody(st)
    ELSE LoopRun(LoopRun(st, m, k \div 2), m, k - (k \div 2))

\* The trace after c more calls of f: consecutive calls are counted.
TraceF(c) ==
    IF trace # <<>> /\ trace[Len(trace)].ev = "f"
    THEN [trace EXCEPT ![Len(trace)].count = @ + c]
    ELSE Append(trace, [ev |-> "f", count |-> c])

\* `for i in range(n): x = f(x)`: the next iterations, `stride` of them in one
\* step of the model (fewer when fewer are left).
ComputeLoop ==
    /\ Running("compute", "loop")
    /\ RangeHasNext(i, n)
    /\ \E st \in {LoopRun([i |-> i, x |-> x, lastF |-> lastF], n, stride)} :
          /\ x' = st.x
          /\ i' = st.i
          /\ lastF' = st.lastF
          /\ calls' = [calls EXCEPT !["f"] = @ + (st.i - i)]
          /\ trace' = TraceF(st.i - i)
    /\ UNCHANGED <<n, stride, stack, retv, result, stdout>>
    /\ UNCHANGED <<mainLocals, innerLocals, cellVars, fibVars, timerVars>>

\* The range is exhausted: `return x`
ComputeReturn ==
    /\ Running("compute", "loop")
    /\ ~RangeHasNext(i, n)
    /\ Return(x)
    /\ UNCHANGED <<computeLocals, stdout, calls>>
    /\ UNCHANGED <<mainLocals, innerLocals, cellVars, fibVars, timerVars>>

\* The loop counts fun1, fun2 and fun3 pass to compute.
Fun1N == 3 * 10^5
Fun2N_as_fun1 == 3 * 10^5
Fun2N == 5 * 10^5
Fun3N == 7 * 10^5

\* `compute(count)` in fn: the call.
FunCompute(fn, count) ==
    /\ Running(fn, "compute")
    /\ Call("return", "compute", count)
    /\ n' = count
    /\ UNCHANGED <<i, x, lastF, stride, retv, result, stdout>>
    /\ UNCHANGED <<mainLocals, innerLocals, cellVars, fibVars, timerVars>>

\* `return compute(count)` in fn: the return of what compute returned.
FunReturn(fn) ==
    /\ Running(fn, "return")
    /\ Return(retv)
    /\ UNCHANGED <<stdout, calls>>
    /\ UNCHANGED <<computeLocals, mainLocals, innerLocals, cellVars, fibVars, timerVars>>

\* `def fun1(): return compute(3*10**5)`
Fun1 == FunCompute("fun1", Fun1N) \/ FunReturn("fun1")

\* `def fun2(): return compute(5*10**5)`
Fun2 == FunCompute("fun2", Fun2N) \/ FunReturn("fun2")

\* `def fun3():` `sleep_()`
Fun3Sleep ==
    /\ Running("fun3", "sleep")
    /\ Call("compute", "sleep_", <<>>)
    /\ UNCHANGED <<retv, result, stdout>>
    /\ UNCHANGED <<computeLocals, mainLocals, innerLocals, cellVars, fibVars, timerVars>>

\* `return compute(7*10**5)` of fun3
Fun3 == Fun3Sleep \/ FunCompute("fun3", Fun3N) \/ FunReturn("fun3")

\* `def sleep_(): sleep(0.1)`
SleepSleep ==
    /\ Running("sleep_", "sleep")
    /\ stack' = Goto("end")
    /\ calls' = [calls EXCEPT !["time.sleep"] = @ + 1]
    /\ trace' = Append(trace, CallEvent("time.sleep", <<"0.1">>))
    /\ UNCHANGED <<retv, result, stdout>>
    /\ UNCHANGED <<computeLocals, mainLocals, innerLocals, cellVars, fibVars, timerVars>>

\* sleep_ ends: it returns None.
SleepReturn ==
    /\ Running("sleep_", "end")
    /\ Return(PyNone)
    /\ UNCHANGED <<stdout, calls>>
    /\ UNCHANGED <<computeLocals, mainLocals, innerLocals, cellVars, fibVars, timerVars>>

\* The line `print('Calcuated sum: {:.3f}\n'.format(sum))` prints.
SumLine(v) == [kind |-> "sum", text |-> "Calcuated sum: {:.3f}\n", value |-> v]

\* `sum = fun1() + fun2() + fun3()`: the call of fun1, the first operand.
MainCallFun1(b) ==
    /\ Running(b, "fun1")
    /\ Call("fun2", "fun1", <<>>)
    /\ UNCHANGED <<retv, result, stdout>>
    /\ UNCHANGED <<computeLocals, mainLocals, innerLocals, cellVars, fibVars, timerVars>>

\* The call of fun2, the second operand.
MainCallFun2(b) ==
    /\ Running(b, "fun2")
    /\ acc' = retv
    /\ Call("fun3", "fun2", <<>>)
    /\ UNCHANGED <<sum, retv, result, stdout>>
    /\ UNCHANGED <<computeLocals, innerLocals, cellVars, fibVars, timerVars>>

\* fun1() + fun2() is added up; the call of fun3, the third operand.
MainCallFun3(b) ==
    /\ Running(b, "fun3")
    /\ acc' = PyAdd(acc, retv)
    /\ Call("assign", "fun3", <<>>)
    /\ UNCHANGED <<sum, retv, result, stdout>>
    /\ UNCHANGED <<computeLocals, innerLocals, cellVars, fibVars, timerVars>>

\* A body that prints the sum as soon as it is assigned.
MainAssignSum_then_print(b) ==
    /\ Running(b, "assign")
    /\ sum' = PyAdd(acc, retv)
    /\ stack' = Goto("print")
    /\ UNCHANGED <<acc, retv, result, stdout, calls, trace>>
    /\ UNCHANGED <<computeLocals, innerLocals, cellVars, fibVars, timerVars>>

\* The third operand is added and the value assigned to sum.
MainAssignSum(b) ==
    /\ Running(b, "assign")
    /\ sum' = PyAdd(acc, retv)
    /\ stack' = Goto("sleep")
    /\ UNCHANGED <<acc, retv, result, stdout, calls, trace>>
    /\ UNCHANGED <<computeLocals, innerLocals, cellVars, fibVars, timerVars>>

\* `sleep_()`
MainCallSleep(b) ==
    /\ Running(b, "sleep")
    /\ Call("print", "sleep_", <<>>)
    /\ UNCHANGED <<retv, result, stdout>>
    /\ UNCHANGED <<computeLocals, mainLocals, innerLocals, cellVars, fibVars, timerVars>>

\* `print('Calcuated sum: {:.3f}\n'.format(sum))`
MainPrint(b) ==
    /\ Running(b, "print")
    /\ stdout' = Append(stdout, SumLine(sum))
    /\ stack' = Goto("end")
    /\ UNCHANGED <<retv, result, calls, trace>>
    /\ UNCHANGED <<computeLocals, mainLocals, innerLocals, cellVars, fibVars, timerVars>>

\* The body ends: it returns None.
MainReturn(b) ==
    /\ Running(b, "end")
    /\ Return(PyNone)
    /\ UNCHANGED <<stdout, calls>>
    /\ UNCHANGED <<computeLocals, mainLocals, innerLocals, cellVars, fibVars, timerVars>>

\* The statements of main and of main_with_prof, which are the same.
Body(b) ==
    \/ MainCallFun1(b)
    \/ MainCallFun2(b)
    \/ MainCallFun3(b)
    \/ MainAssignSum(b)
    \/ MainCallSleep(b)
    \/ MainPrint(b)
    \/ MainReturn(b)

\* `def main():`
main == Body("main")

-----------------------------------------------------------------------------
(***************************************************************************)
(* profile, the decorator, and main_with_prof (cells 5 and 6)              *)
(***************************************************************************)

\* The argument lists the wrapper is called with.
ArgLists == {<<>>, <<PyInt(1)>>, <<PyInt(1), PyInt(2)>>}
KwargSets == {{}, {<<"key", PyInt(3)>>}}

\* The functions wrapped: what each prints and how it ends, given what it
\* receives. echo prints and returns its arguments, quiet prints nothing and
\* returns None, fail prints its arguments and raises.
FuncLines(fn, recv) ==
    IF fn = "quiet" THEN <<>>
    ELSE <<[kind |-> "func", fn |-> fn, args |-> recv.args, kwargs |-> recv.kwargs]>>
FuncOutcome(fn, recv) ==
    CASE fn = "echo" -> Returned(PyArgs(recv.args, recv.kwargs))
      [] fn = "quiet" -> Returned(PyNone)
      [] fn = "fail" -> Raised("ValueError")

\* What `ps.print_stats()` wrote to ios and `print(ios.getvalue())` prints: the
\* statistics of the profiler, in the state the profiler is in.
StatsLines(p) == [kind |-> "stats", profiler |-> p]

\* `pr = cProfile.Profile()`
InnerCreate ==
    /\ Running("inner", "create")
    /\ pr' = "created"
    /\ trace' = Append(trace, ProfilerEvent("create"))
    /\ stack' = Goto("enable")
    /\ UNCHANGED <<func, args, kwargs, ret_val, funcCalls, retv, result, stdout, calls>>
    /\ UNCHANGED <<computeLocals, mainLocals, cellVars, fibVars, timerVars>>

\* `pr.enable()`
InnerEnable ==
    /\ Running("inner", "enable")
    /\ pr' = "enabled"
    /\ trace' = Append(trace, ProfilerEvent("enable"))
    /\ stack' = Goto("call")
    /\ UNCHANGED <<func, args, kwargs, ret_val, funcCalls, retv, result, stdout, calls>>
    /\ UNCHANGED <<computeLocals, mainLocals, cellVars, fibVars, timerVars>>

\* What `func(*args, **kwargs)` passes on, with the variant `func(*args)`.
Passed_without_kwargs == [args |-> args, kwargs |-> {}]
Passed == [args |-> args, kwargs |-> kwargs]

\* A wrapper that leaves the call of func out.
InnerCall_skipped ==
    /\ Running("inner", "call")
    /\ stack' = Goto("store")
    /\ retv' = PyNone
    /\ UNCHANGED <<func, args, kwargs, pr, ret_val, funcCalls, result, stdout, calls, trace>>
    /\ UNCHANGED <<computeLocals, mainLocals, cellVars, fibVars, timerVars>>

\* `func(*args, **kwargs)`: the call.
InnerCall ==
    /\ Running("inner", "call")
    /\ Call("store", func, Passed)
    /\ funcCalls' = Append(funcCalls, Passed)
    /\ UNCHANGED <<func, args, kwargs, pr, ret_val, retv, result, stdout>>
    /\ UNCHANGED <<computeLocals, mainLocals, cellVars, fibVars, timerVars>>

\* `ret_val = func(*args, **kwargs)`: the assignment of what func returned.
InnerStore ==
    /\ Running("inner", "store")
    /\ ret_val' = Some(retv)
    /\ stack' = Goto("disable")
    /\ UNCHANGED <<func, args, kwargs, pr, funcCalls, retv, result, stdout, calls, trace>>
    /\ UNCHANGED <<computeLocals, mainLocals, cellVars, fibVars, timerVars>>

\* A wrapper that leaves `pr.disable()` out.
InnerDisable_forgotten ==
    /\ Running("inner", "disable")
    /\ stack' = Goto("stats")
    /\ UNCHANGED <<innerLocals, retv, result, stdout, calls, trace>>
    /\ UNCHANGED <<computeLocals, mainLocals, cellVars, fibVars, timerVars>>

\* `pr.disable()`
InnerDisable ==
    /\ Running("inner", "disable")
    /\ pr' = "disabled"
    /\ trace' = Append(trace, ProfilerEvent("disable"))
    /\ stack' = Goto("stats")
    /\ UNCHANGED <<func, args, kwargs, ret_val, funcCalls, retv, result, stdout, calls>>
    /\ UNCHANGED <<computeLocals, mainLocals, cellVars, fibVars, timerVars>>

\* `ios = io.StringIO()`, `ps = pstats.Stats(pr, stream=ios)`,
\* `ps.print_stats()`, `print(ios.getvalue())`
InnerStats ==
    /\ Running("inner", "stats")
    /\ stdout' = Append(stdout, StatsLines(pr))
    /\ trace' = Append(trace, ProfilerEvent("stats"))
    /\ stack' = Goto("return")
    /\ UNCHANGED <<innerLocals, retv, result, calls>>
    /\ UNCHANGED <<computeLocals, mainLocals, cellVars, fibVars, timerVars>>

\* The value the wrapper returns.
InnerValue == ret_val[1]

\* `return ret_val`
InnerReturn ==
    /\ Running("inner", "return")
    /\ Return(InnerValue)
    /\ UNCHANGED <<innerLocals, stdout, calls>>
    /\ UNCHANGED <<computeLocals, mainLocals, cellVars, fibVars, timerVars>>

\* The wrapped function runs: it prints what it prints.
FuncBody ==
    /\ stack # <<>> /\ Top.fn \in Funcs /\ Top.pc = "body"
    /\ stdout' = stdout \o FuncLines(Top.fn, funcCalls[Len(funcCalls)])
    /\ stack' = Goto("end")
    /\ UNCHANGED <<innerLocals, retv, result, calls, trace>>
    /\ UNCHANGED <<computeLocals, mainLocals, cellVars, fibVars, timerVars>>

\* The wrapped function returns a value.
FuncReturn ==
    /\ stack # <<>> /\ Top.fn \in Funcs /\ Top.pc = "end"
    /\ FuncOutcome(Top.fn, funcCalls[Len(funcCalls)]).kind = "returned"
    /\ Return(FuncOutcome(Top.fn, funcCalls[Len(funcCalls)]).value)
    /\ UNCHANGED <<innerLocals, stdout, calls>>
    /\ UNCHANGED <<computeLocals, mainLocals, cellVars, fibVars, timerVars>>

\* A wrapper that disables the profiler when the wrapped function raises, as
\* with `try: ... finally: pr.disable()`.
FuncRaise_disables ==
    /\ stack # <<>> /\ Top.fn \in Funcs /\ Top.pc = "end"
    /\ FuncOutcome(Top.fn, funcCalls[Len(funcCalls)]).kind = "raised"
    /\ stack' = <<>>
    /\ result' = FuncOutcome(Top.fn, funcCalls[Len(funcCalls)])
    /\ trace' = Append(Append(trace, [ev |-> "raise", fn |-> Top.fn]),
                       ProfilerEvent("disable"))
    /\ pr' = "disabled"
    /\ UNCHANGED <<func, args, kwargs, ret_val, funcCalls, retv, stdout, calls>>
    /\ UNCHANGED <<computeLocals, mainLocals, cellVars, fibVars, timerVars>>

\* The wrapped function raises. inner has no try statement, and neither has
\* the calling cell: the exception leaves every frame at once and ends the call.
FuncRaise ==
    /\ stack # <<>> /\ Top.fn \in Funcs /\ Top.pc = "end"
    /\ FuncOutcome(Top.fn, funcCalls[Len(funcCalls)]).kind = "raised"
    /\ stack' = <<>>
    /\ result' = FuncOutcome(Top.fn, funcCalls[Len(funcCalls)])
    /\ trace' = Append(trace, [ev |-> "raise", fn |-> Top.fn])
    /\ UNCHANGED <<innerLocals, retv, stdout, calls>>
    /\ UNCHANGED <<computeLocals, mainLocals, cellVars, fibVars, timerVars>>

\* `def inner(*args, **kwargs):`
inner ==
    \/ InnerCreate
    \/ InnerEnable
    \/ InnerCall
    \/ InnerStore
    \/ InnerDisable
    \/ InnerStats
    \/ InnerReturn

\* `@profile def main_with_prof():` the body the wrapper calls.
main_with_prof == Body("main_with_prof")

-----------------------------------------------------------------------------
(***************************************************************************)
(* The calling cells                                                       *)
(***************************************************************************)

\* Largest argument of the calls compute(n) of the cell that tries compute.
MaxComputeN == 12

\* Largest number of loop iterations per step when compute is tried alone.
MaxStride == 2

\* Loop iterations per step in the runs of main() and main_with_prof().
MainStride == 10000

NoRun == [trace |-> <<>>, calls |-> NoCalls, stdout |-> <<>>, result |-> NoResult]

InitRunVars(first, strides) ==
    /\ script = first
    /\ stride \in strides
    /\ stack = <<>>
    /\ retv = PyNone
    /\ result = NoResult
    /\ n = 0 /\ i = 0 /\ x = PyNone
    /\ acc = PyNone /\ sum = PyNone
    /\ func = "" /\ args = <<>> /\ kwargs = {}
    /\ pr = "none"
    /\ ret_val = None
    /\ stdout = <<>>
    /\ calls = NoCalls
    /\ trace = <<>>
    /\ lastF = None
    /\ funcCalls = <<>>
    /\ mainRun = NoRun

InitRunIdle == InitRunVars("end", {1})

\* A cell calls compute(k).
CellCallCompute ==
    /\ script = "compute(n)" /\ stack = <<>>
    /\ \E k \in 0..MaxComputeN :
          /\ n' = k
          /\ stack' = <<[fn |-> "compute", pc |-> Entry("compute")]>>
          /\ trace' = Append(trace, CallEvent("compute", k))
    /\ calls' = [calls EXCEPT !["compute"] = @ + 1]
    /\ script' = "end"
    /\ UNCHANGED <<i, x, lastF, stride, retv, result, stdout, mainRun>>
    /\ UNCHANGED <<mainLocals, innerLocals, fibVars, timerVars>>

\* `main()`
CellCallMain ==
    /\ script = "main()" /\ stack = <<>>
    /\ stack' = <<[fn |-> "main", pc |-> Entry("main")]>>
    /\ trace' = Append(trace, CallEvent("main", <<>>))
    /\ calls' = [calls EXCEPT !["main"] = @ + 1]
    /\ script' = "main_with_prof()"
    /\ UNCHANGED <<retv, result, stdout, mainRun>>
    /\ UNCHANGED <<computeLocals, mainLocals, innerLocals, fibVars, timerVars>>

\* The wrapper is called with arguments a and k: `inner(*a, **k)` starts.
CallWrapper(fn, a, k) ==
    /\ func' = fn
    /\ args' = a
    /\ kwargs' = k
    /\ stack' = <<[fn |-> "inner", pc |-> Entry("inner")]>>
    /\ trace' = <<CallEvent("inner", [args |-> a, kwargs |-> k])>>
    /\ calls' = [NoCalls EXCEPT !["inner"] = 1]
    /\ stdout' = <<>>
    /\ result' = NoResult
    /\ script' = "end"
    /\ UNCHANGED <<pr, ret_val, funcCalls, retv>>
    /\ UNCHANGED <<computeLocals, mainLocals, fibVars, timerVars>>

\* `main_with_prof()`, in a later cell than main(): what main() did is kept
\* aside, and the run of main_with_prof() is observed from a clean slate.
CellCallMainWithProf ==
    /\ script = "main_with_prof()" /\ stack = <<>>
    /\ mainRun' = [trace |-> trace, calls |-> calls, stdout |-> stdout, result |-> result]
    /\ CallWrapper("main_with_prof", <<>>, {})

\* A cell calls a function decorated with @profile.
CellCallWrapped ==
    /\ script = "wrapped()" /\ stack = <<>>
    /\ \E fn \in Funcs, a \in ArgLists, k \in KwargSets : CallWrapper(fn, a, k)
    /\ UNCHANGED mainRun

NextCompute == CellCallCompute \/ ComputeInit \/ ComputeLoop \/ ComputeReturn

NextProfile == CellCallWrapped \/ inner \/ FuncBody \/ FuncReturn \/ FuncRaise

NextMain ==
    \/ CellCallMain
    \/ CellCallMainWithProf
    \/ main
    \/ main_with_prof
    \/ inner
    \/ Fun1
    \/ Fun2
    \/ Fun3
    \/ SleepSleep
    \/ SleepReturn
    \/ ComputeInit
    \/ ComputeLoop
    \/ ComputeReturn

-----------------------------------------------------------------------------
(***************************************************************************)
(* Specifications                                                          *)
(***************************************************************************)

\* fib on every argument up to MaxFibN and on the notebook's arguments.
InitFib ==
    /\ InitFibVars /\ fibArg \in (0..MaxFibN) \cup NotebookFibArgs
    /\ InitTimerIdle
    /\ InitRunIdle
SpecFib == InitFib /\ [][NextFib]_vars

\* fib on every argument up to MaxFibN, each invocation traced.
InitFibTrace ==
    /\ InitFibVars /\ fibArg \in 0..MaxFibN
    /\ InitTimerIdle
    /\ InitRunIdle
SpecFibTrace == InitFibTrace /\ [][NextFib]_vars

\* Any sequence of Timer calls by the callers, as time passes.
InitTimer == InitFibIdle /\ InitTimerIdle /\ InitRunIdle
SpecTimer == InitTimer /\ [][NextTimer]_vars

\* Two threads, each calling start_measure, working, and calling print_time.
InitThreads == InitFibIdle /\ InitTimerThreads /\ InitRunIdle
SpecTimerThreads == InitThreads /\ [][NextTimerThreads]_vars

\* The calls compute(n), n up to MaxComputeN.
InitCompute == InitFibIdle /\ InitTimerIdle /\ InitRunVars("compute(n)", 1..MaxStride)
SpecCompute == InitCompute /\ [][NextCompute]_vars

\* The calls of a function decorated with @profile.
InitProfile == InitFibIdle /\ InitTimerIdle /\ InitRunVars("wrapped()", {1})
SpecProfile == InitProfile /\ [][NextProfile]_vars

\* main(), then main_with_prof().
InitMain == InitFibIdle /\ InitTimerIdle /\ InitRunVars("main()", {MainStride})
SpecMain == InitMain /\ [][NextMain]_vars

-----------------------------------------------------------------------------
(***************************************************************************)
(* Properties                                                              *)
(***************************************************************************)

\* The reference sequence r(0) = r(1) = 1, r(n) = r(n-1) + r(n-2), computed
\* forwards from the pair (r(0), r(1)).
RECURSIVE FibRefFrom(_, _, _)
FibRefFrom(k, a, b) == IF k = 0 THEN a ELSE FibRefFrom(k - 1, b, a + b)
FibRef(k) == FibRefFrom(k, 1, 1)

\* C1: for every argument n >= 0 up to the bound, and for the notebook's own
\* arguments, fib(n) is the n-th term of the reference sequence, both as the
\* value of the function and as the value the traced call returns; fib(30) =
\* 1346269, fib(31) = 2178309, fib(32) = 3524578 and fib(35) = 14930352.
C1_FibIsReferenceSequence ==
    /\ fibValue # None =>
          /\ fibValue[1] = FibRef(fibArg)
          /\ fibArg = 30 => fibValue[1] = 1346269
          /\ fibArg = 31 => fibValue[1] = 2178309
          /\ fibArg = 32 => fibValue[1] = 3524578
          /\ fibArg = 35 => fibValue[1] = 14930352
    /\ fibRet # None => fibRet[1] = FibRef(fibArg)

\* C1 witness: fib(35) has been evaluated and is 14930352.
C1_Witness == fibArg = 35 /\ fibValue = Some(14930352)

\* The recursive invocations a frame has made, by its position in
\* `fib(n-1) + fib(n-2)`.
FibKidsAt(fr) ==
    CASE fr.pc = "test" -> <<>>
      [] fr.pc \in {"left", "right"} -> <<fr.n - 1>>
      [] OTHER -> <<fr.n - 1, fr.n - 2>>

\* C7: fib does not memoize. Every invocation fib(k) that gets past the base
\* test has k >= 2 and makes its recursive invocations fib(k-1), then fib(k-2),
\* each a new frame, whether or not the argument was evaluated before; and when
\* the top-level call fib(n) has returned, it has made 2*fib(n) - 1 invocations.
C7_NoMemoization ==
    /\ \A j \in DOMAIN fibStack :
          /\ fibStack[j].kids = FibKidsAt(fibStack[j])
          /\ fibStack[j].pc # "test" => fibStack[j].n >= 2
          /\ fibStack[j].pc = "left" =>
                j < Len(fibStack) /\ fibStack[j + 1].n = fibStack[j].n - 1
          /\ fibStack[j].pc = "wait_right" =>
                j < Len(fibStack) /\ fibStack[j + 1].n = fibStack[j].n - 2
          /\ fibStack[j].pc \in {"test", "right", "add"} => j = Len(fibStack)
    /\ fibPc = "done" => /\ fibRet # None
                         /\ fibInvocations = 2 * fibRet[1] - 1
                         /\ fibInvocations = 2 * FibRef(fibArg) - 1

\* C7 witness: a call has returned during which an argument k >= 2 that had
\* already been evaluated was invoked again.
C7_Witness ==
    /\ fibPc = "done"
    /\ \E k \in fibReinvoked : k >= 2
    /\ fibInvocations = 2 * fibRet[1] - 1

\* C2: whenever start_measure has been called, a print_time call raises no
\* error, and the duration it computes and prints (to five decimals) is the
\* clock reading at the call minus the reading the most recent start_measure
\* took, whatever earlier start_measure calls there were.
C2_PrintMeasuresFromLatestStart ==
    /\ lastPrint.kind = "printed" =>
          /\ lastPrint.since # None
          /\ lastPrint.elapsed = lastPrint.at - lastPrint.since[1].at
          /\ lastPrint.lines = <<TimeElapsedLine(lastPrint.at - lastPrint.since[1].at)>>
    /\ lastPrint.kind = "TypeError" => lastPrint.since = None

\* C2 witness: start_measure ran twice, at different readings, and the
\* print_time after the second reported the time since the second.
C2_Witness ==
    /\ lastPrint.kind = "printed"
    /\ lastPrint.since = lastStart
    /\ earlierStart # None
    /\ earlierStart[1].at < lastStart[1].at
    /\ lastPrint.at > lastStart[1].at
    /\ lastPrint.elapsed = lastPrint.at - lastStart[1].at

\* C3: a print_time call leaves Timer._start_time as it was; and a print_time
\* that follows another with no start_measure in between measures from the
\* same start instant, so that its duration, and the duration it prints, are
\* not smaller than those of the one before.
C3_PrintKeepsStartTime ==
    /\ [](lastPrint.kind = "printed" /\ lastPrint.prev # None =>
            /\ lastPrint.at - lastPrint.elapsed
                 = lastPrint.prev[1].at - lastPrint.prev[1].elapsed
            /\ lastPrint.elapsed >= lastPrint.prev[1].elapsed
            /\ lastPrint.lines[1].digits
                 >= TimeElapsedLine(lastPrint.prev[1].elapsed).digits)
    /\ [][lastPrint' # lastPrint => _start_time' = _start_time]_vars

\* C3 witness: two print_time calls after one start_measure, the second later
\* than the first and reporting more.
C3_Witness ==
    /\ lastPrint.kind = "printed"
    /\ lastPrint.prev # None
    /\ lastPrint.elapsed > lastPrint.prev[1].elapsed
    /\ lastPrint.prev[1].elapsed > 0

\* C9: the start time is one value shared by the threads: a thread's
\* print_time reports its clock reading minus the reading stored by the latest
\* start_measure of any thread, its own or not; no print_time of a thread
\* fails, each thread having called start_measure before.
C9_StartTimeIsShared ==
    /\ lastPrint.kind # "TypeError"
    /\ lastPrint.kind = "printed" =>
          /\ lastPrint.since # None
          /\ lastPrint.starts[lastPrint.since[1].by] = Some(lastPrint.since[1].at)
          /\ lastPrint.elapsed = lastPrint.at - lastPrint.since[1].at

\* C9 witness: a thread ran start_measure, the other thread ran start_measure
\* later, time passed, and the first thread's print_time reported the time
\* since the other thread's start_measure, not since its own.
C9_Witness ==
    \E c \in Callers, d \in Callers :
        /\ c # d
        /\ lastPrint.kind = "printed"
        /\ lastPrint.caller = c
        /\ lastPrint.since # None
        /\ lastPrint.since[1].by = d
        /\ lastPrint.starts[c] # None
        /\ lastPrint.starts[d] # None
        /\ lastPrint.starts[c][1] < lastPrint.starts[d][1]
        /\ lastPrint.starts[d][1] < lastPrint.at
        /\ lastPrint.elapsed = lastPrint.at - lastPrint.starts[d][1]
        /\ lastPrint.elapsed # lastPrint.at - lastPrint.starts[c][1]

\* The call of the wrapper has ended, by a return.
WrapperReturned == script = "end" /\ stack = <<>> /\ result.kind = "returned"

\* The values func returned, in the order of its returns.
FuncReturns == SelectSeq(trace, LAMBDA e : e.ev = "return" /\ e.fn = func)

\* C4: the wrapper calls func at most once, with the positional and keyword
\* arguments the wrapper was called with; when the wrapper has returned, func
\* was called exactly once and the wrapper returned the value func returned.
C4_WrapperPassesArgsAndValue ==
    /\ func # "" =>
          /\ Len(funcCalls) <= 1
          /\ calls[func] = Len(funcCalls)
          /\ \A j \in DOMAIN funcCalls : funcCalls[j] = [args |-> args, kwargs |-> kwargs]
    /\ WrapperReturned =>
          /\ Len(funcCalls) = 1
          /\ Len(FuncReturns) = 1
          /\ result.value = FuncReturns[1].value
    /\ result.kind = "raised" => Len(funcCalls) = 1

\* C4 witness: a wrapped function called with two positional arguments and a
\* keyword argument returned them, and so did the wrapper.
C4_Witness ==
    /\ WrapperReturned
    /\ func = "echo"
    /\ Len(args) = 2
    /\ kwargs # {}
    /\ result.value = PyArgs(args, kwargs)

\* The steps of the trace, without their arguments and values.
StepOf(e) == IF e.ev = "profiler" THEN <<e.ev, e.step>> ELSE <<e.ev, e.fn>>
Steps(t) == [j \in DOMAIN t |-> StepOf(t[j])]

\* C5: in a call of the wrapper that returns, the profiler is created, then
\* enabled, then func runs to its return, then the profiler is disabled, then
\* the statistics are printed, then the wrapper returns. The profiler is
\* enabled whenever func is running and disabled when the statistics are
\* printed, and what func printed precedes the statistics.
C5_ProfilerBracketsTheCall ==
    /\ WrapperReturned /\ func \in Funcs =>
          Steps(trace) = << <<"call", "inner">>,
                            <<"profiler", "create">>, <<"profiler", "enable">>,
                            <<"call", func>>, <<"return", func>>,
                            <<"profiler", "disable">>, <<"profiler", "stats">>,
                            <<"return", "inner">> >>
    /\ \A j \in DOMAIN stack : stack[j].fn \in Funcs => pr = "enabled"
    /\ \A j \in DOMAIN stdout :
          stdout[j].kind = "stats" =>
             /\ stdout[j].profiler = "disabled"
             /\ j = Len(stdout)
             /\ SubSeq(stdout, 1, j - 1) = FuncLines(func, [args |-> args, kwargs |-> kwargs])

\* C5 witness: a wrapped function that prints has returned through the
\* wrapper: its line and the statistics are printed, the profiler is disabled.
C5_Witness ==
    /\ WrapperReturned
    /\ func = "echo"
    /\ Len(stdout) = 2
    /\ stdout[1].kind = "func"
    /\ stdout[2].kind = "stats"
    /\ pr = "disabled"

\* The run of main() has ended, and the next cell has not started.
MainReturned == script = "main_with_prof()" /\ stack = <<>> /\ result.kind = "returned"

\* The arguments of the calls of compute in a trace, in order.
ComputeArgs(t) ==
    LET cs == SelectSeq(t, LAMBDA e : e.ev = "call" /\ e.fn = "compute")
    IN  [j \in DOMAIN cs |-> cs[j].arg]

\* C6: one execution of main() calls compute 3 times, with the loop counts
\* 300000, 500000 and 700000, calls f 1500000 times, calls sleep_ twice, and
\* calls fun1, fun2 and fun3 once each.
C6_MainCallCounts ==
    MainReturned =>
        /\ calls["compute"] = 3
        /\ ComputeArgs(trace) = <<300000, 500000, 700000>>
        /\ calls["f"] = 1500000
        /\ calls["sleep_"] = 2
        /\ calls["fun1"] = 1 /\ calls["fun2"] = 1 /\ calls["fun3"] = 1
        /\ calls["main"] = 1

\* C6 witness: main() has returned after 1500000 calls of f.
C6_Witness == MainReturned /\ calls["f"] = 1500000 /\ calls["compute"] = 3

\* The functions of the workload, and what a trace says of them: their calls
\* with their arguments, and the counts of the consecutive calls of f.
Workload == {"fun1", "fun2", "fun3", "compute", "f", "sleep_"}
WorkloadCalls(t) ==
    SelectSeq(t, LAMBDA e : \/ e.ev = "f"
                            \/ e.ev = "call" /\ e.fn \in Workload)
SumLines(out) == SelectSeq(out, LAMBDA l : l.kind = "sum")

\* The run of main_with_prof() that followed main() has ended.
BothReturned == script = "end" /\ stack = <<>> /\ result.kind = "returned"

\* C8: main_with_prof() makes the calls of fun1, fun2, fun3, compute, f and
\* sleep_ that main() made, in the same order and with the same arguments (3
\* calls of compute, 1500000 of f, 2 of sleep_), and prints the line with the
\* calculated sum that main() printed.
C8_ProfiledRunIsTheSameRun ==
    BothReturned =>
        /\ WorkloadCalls(trace) = WorkloadCalls(mainRun.trace)
        /\ \A fn \in Workload : calls[fn] = mainRun.calls[fn]
        /\ calls["compute"] = 3 /\ calls["f"] = 1500000 /\ calls["sleep_"] = 2
        /\ Len(SumLines(stdout)) = 1
        /\ SumLines(stdout) = mainRun.stdout

\* C8 witness: both runs have returned; the profiled run printed the sum and
\* the statistics after its 1500000 calls of f.
C8_Witness ==
    /\ BothReturned
    /\ mainRun.calls["f"] = 1500000
    /\ calls["f"] = 1500000
    /\ Len(stdout) = 2
    /\ stdout[1] = mainRun.stdout[1]
    /\ stdout[2].kind = "stats"

\* f applied k times to the initial value 1 of x; no times, the value 1.
FTimes(k) == IF k = 0 THEN PyInt(1)
             ELSE [type |-> "float", kind |-> "f", base |-> PyInt(1), apps |-> k]

\* The call compute(n) of the cell has returned.
ComputeReturned == script = "end" /\ stack = <<>> /\ result.kind = "returned"

\* C10: after i iterations compute(n) has called f i times, the first time on
\* the initial value 1 and each later time on the result of the call before,
\* and x is the result of the latest call; compute(n) returns after n calls
\* with the result of the last, and compute(0) after none with the value 1.
C10_ComputeChainsF ==
    /\ stack # <<>> /\ Top.pc = "loop" =>
          /\ i <= n
          /\ calls["f"] = i
          /\ x = FTimes(i)
          /\ (lastF = None) <=> (i = 0)
          /\ lastF # None =>
                /\ lastF[1].ret = x
                /\ (lastF[1].prev = None) <=> (i = 1)
                /\ lastF[1].arg = IF lastF[1].prev = None THEN PyInt(1)
                                  ELSE lastF[1].prev[1]
                /\ lastF[1].arg = FTimes(i - 1)
    /\ ComputeReturned =>
          /\ calls["f"] = n
          /\ result.value = FTimes(n)
          /\ result.value = IF n = 0 THEN PyInt(1) ELSE lastF[1].ret

\* C10 witness: compute(n) with n >= 2 has returned the result of its n-th
\* call of f, having run the loop one iteration at a time.
C10_Witness ==
    /\ ComputeReturned
    /\ stride = 1
    /\ n >= 2
    /\ calls["f"] = n
    /\ result.value = lastF[1].ret

\* The places of the trace at which fn is called, and at which it returns.
CallsOf(fn) == {j \in DOMAIN trace : trace[j].ev = "call" /\ trace[j].fn = fn}
ReturnsOf(fn) == {j \in DOMAIN trace : trace[j].ev = "return" /\ trace[j].fn = fn}

\* The places at which compute is called with the loop count `count`.
ComputeCallsWith(count) == {j \in CallsOf("compute") : trace[j].arg = count}

\* The call at place c has returned before place k.
FinishedBefore(c, k) == \E r \in ReturnsOf(trace[c].fn) : c < r /\ r < k

\* Whatever is at a place of T, a call of S was made and every call of S had
\* returned before it.
AllFinishedBefore(S, T) ==
    \A k \in T : S # {} /\ \A c \in S : FinishedBefore(c, k)

\* The place of the second call of sleep_, if it has been made.
SecondSleep ==
    {k \in CallsOf("sleep_") : Cardinality({j \in CallsOf("sleep_") : j < k}) = 1}

\* C11: in an execution of main(), plain or profiled, at every moment: if
\* fun2's compute has started, fun1's compute has finished before; if fun3 has
\* started, fun2's compute has finished before; if fun3's compute has started,
\* fun3 has called sleep_ before, and that sleep_ has slept and returned; if
\* sleep_ has been called a second time, all three computes have finished
\* before; and if the sum is printed, the second sleep_ has slept and returned.
C11_MainOrder ==
    /\ AllFinishedBefore(ComputeCallsWith(Fun1N), ComputeCallsWith(Fun2N))
    /\ AllFinishedBefore(ComputeCallsWith(Fun2N), CallsOf("fun3"))
    /\ \A k \in ComputeCallsWith(Fun3N) :
          \E c \in CallsOf("fun3"), s \in CallsOf("sleep_"), t \in CallsOf("time.sleep") :
             c < s /\ s < t /\ t < k /\ FinishedBefore(s, k)
    /\ \A count \in {Fun1N, Fun2N, Fun3N} :
          AllFinishedBefore(ComputeCallsWith(count), SecondSleep)
    /\ SumLines(stdout) # <<>> =>
          /\ SecondSleep # {}
          /\ \A s \in SecondSleep :
                /\ FinishedBefore(s, Len(trace) + 1)
                /\ \E t \in CallsOf("time.sleep") : s < t
          /\ Cardinality(ReturnsOf("compute")) = 3

\* C11 witness: main() has just printed the sum, after its three computes and
\* its two calls of sleep_, the first of them made by fun3.
C11_Witness ==
    /\ Running("main", "end")
    /\ SumLines(stdout) # <<>>
    /\ Cardinality(ReturnsOf("compute")) = 3
    /\ Cardinality(ReturnsOf("sleep_")) = 2
    /\ ComputeCallsWith(Fun3N) # {}
    /\ SecondSleep # {}

\* C12: as long as start_measure has never been called, Timer._start_time is
\* None and no print_time has reported a duration; a print_time call made
\* while the start time is None fails with TypeError, prints nothing, and
\* leaves the start time None.
C12_PrintTimeFailsWhenNotStarted ==
    /\ [](lastStart = None =>
            /\ _start_time = None
            /\ lastPrint.kind \in {"none", "TypeError"}
            /\ lastPrint.lines = <<>>)
    /\ [][_start_time = None /\ lastPrint' # lastPrint =>
            /\ lastPrint'.kind = "TypeError"
            /\ lastPrint'.lines = <<>>
            /\ _start_time' = None]_vars

\* C12 witness: print_time was called, after some time, with no start_measure
\* before it: it failed, printed nothing, and the start time is None.
C12_Witness ==
    /\ lastStart = None
    /\ lastPrint.kind = "TypeError"
    /\ lastPrint.at > 0
    /\ lastPrint.lines = <<>>
    /\ _start_time = None

\* The call of the wrapper has ended, by an exception.
WrapperRaised == script = "end" /\ stack = <<>> /\ result.kind = "raised"

\* C13: when the wrapped function raises, the call of the wrapper ends with
\* that exception and no frame is left running; the profiler was created and
\* enabled and is left enabled, no disable step was executed, ret_val was
\* never assigned, and nothing but what the function printed is printed: no
\* statistics. An exception ends the call in no other way.
C13_RaiseSkipsDisableAndStats ==
    /\ result.kind = "raised" =>
          /\ WrapperRaised
          /\ result = FuncOutcome(func, [args |-> args, kwargs |-> kwargs])
          /\ Steps(trace) = << <<"call", "inner">>,
                               <<"profiler", "create">>, <<"profiler", "enable">>,
                               <<"call", func>>, <<"raise", func>> >>
          /\ pr = "enabled"
          /\ ret_val = None
          /\ stdout = FuncLines(func, [args |-> args, kwargs |-> kwargs])
          /\ \A j \in DOMAIN stdout : stdout[j].kind # "stats"
    /\ (func # "" /\ stack = <<>> /\
          FuncOutcome(func, [args |-> args, kwargs |-> kwargs]).kind = "raised")
          => result.kind = "raised"

\* C13 witness: a wrapped function called with arguments printed its line and
\* raised; the call of the wrapper ended with the exception, the profiler is
\* enabled, and the function's line is all that is printed.
C13_Witness ==
    /\ WrapperRaised
    /\ func = "fail"
    /\ result.exc = "ValueError"
    /\ args # <<>>
    /\ pr = "enabled"
    /\ Len(stdout) = 1
    /\ stdout[1].kind = "func"

=============================================================================
